---- MODULE Spec2Model ----
(***************************************************************************)
(* useChatCompletion (src/src/chat-hook.ts, lines 1-206) together with     *)
(* openAiStreamingDataHandler (src/src/chat-stream-handler.ts).            *)
(*                                                                         *)
(* Text values (content, role, wire text) are sequences of atoms: '' is    *)
(* <<>> and string concatenation is \o.  The wire text of a response body  *)
(* is a sequence of symbols; a network chunk is any run of consecutive     *)
(* symbols of it.                                                          *)
(***************************************************************************)
EXTENDS Integers, Sequences, FiniteSets, TLC

VARIABLES
  messages,    \* React state messages (chat-hook.ts:53)
  loading,     \* React state loading (chat-hook.ts:54)
  controller,  \* React state controller (chat-hook.ts:55); 0 is null, n > 0 the AbortController of request n
  reqs,        \* the submitPrompt calls that passed both guards, in order; each is one run of openAiStreamingDataHandler
  now,         \* Date.now()
  apiParams,   \* the argument of useChatCompletion (chat-hook.ts:52), the same at every render
  view         \* the render whose callbacks the caller holds: the values closed over by submitPrompt, abortResponse, resetMessages, setMessages

vars == <<messages, loading, controller, reqs, now, view, apiParams>>

-----------------------------------------------------------------------------
(* Bounds of the model *)

MaxTime == 2
MaxLen == 5
MaxInFlight == 2

-----------------------------------------------------------------------------
(* Program constants *)

MILLISECONDS_PER_SECOND == 1000

-----------------------------------------------------------------------------
(* Wire symbols *)

NL == "\n"
SP == " "
DATA == "data:"
DONE == "[DONE]"

IsWhitespace(c) == c \in {SP, NL}

RECURSIVE TrimStart(_)
TrimStart(s) ==
  IF s # <<>> /\ IsWhitespace(Head(s)) THEN TrimStart(Tail(s)) ELSE s

RECURSIVE TrimEnd(_)
TrimEnd(s) ==
  IF s # <<>> /\ IsWhitespace(s[Len(s)]) THEN TrimEnd(SubSeq(s, 1, Len(s) - 1)) ELSE s

\* String.prototype.trim
Trim(s) == TrimEnd(TrimStart(s))

\* decodedData.split(/(\n){2}/): the pieces between non-overlapping "\n\n",
\* with the captured "\n" spliced in after every piece that a separator ends.
RECURSIVE SplitLines(_)
SplitLines(s) ==
  LET hits == {i \in 1..(Len(s) - 1) : s[i] = NL /\ s[i + 1] = NL}
  IN IF hits = {}
       THEN <<s>>
       ELSE LET i == CHOOSE j \in hits : \A k \in hits : j <= k
            IN <<SubSeq(s, 1, i - 1), <<NL>>>> \o SplitLines(SubSeq(s, i + 2, Len(s)))

\* line.replace(/(\n)?^data:\s*/, '').trim(): without the m flag ^ matches at
\* index 0 only, so the marker is removed only when the line starts with it.
StripLine(line) ==
  Trim(IF line # <<>> /\ Head(line) = DATA THEN TrimStart(Tail(line)) ELSE line)

\* .filter((line) => line !== '' && line !== '[DONE]')
KeepLine(line) == line # <<>> /\ line # <<DONE>>

-----------------------------------------------------------------------------
(* JSON payloads.  A payload is written on the wire as { k } with k naming  *)
(* the object it parses to; every other text is not JSON.                   *)

Assistant == <<"assistant">>
The == <<"T", "h", "e">>
BT == "backtick"
Tick3 == <<BT, SP, NL, "x">>
Spaced == <<SP, "a", SP>>
MidTick == <<"a", BT, SP>>

PayloadKinds ==
  {"role", "content", "tick", "spaced", "midtick", "empty", "nochoices", "error"}

Payload(k) ==
  CASE k = "role" -> [choices |-> <<[delta |-> [role |-> Assistant]]>>]
    [] k = "content" -> [choices |-> <<[delta |-> [content |-> The]]>>]
    [] k = "tick" -> [choices |-> <<[delta |-> [content |-> Tick3]]>>]
    [] k = "spaced" -> [choices |-> <<[delta |-> [content |-> Spaced]]>>]
    [] k = "midtick" -> [choices |-> <<[delta |-> [content |-> MidTick]]>>]
    [] k = "empty" -> [choices |-> <<[delta |-> <<>>]>>]
    [] k = "nochoices" -> [choices |-> <<>>]
    [] k = "error" -> [error |-> [message |-> <<"Unauthorized">>]]

Json(k) == <<"{", k, "}">>
BadJson == <<"{", "bad">>

\* JSON.parse(line) returns (does not throw a SyntaxError)
IsJson(line) ==
  /\ Len(line) = 3
  /\ line[1] = "{"
  /\ line[3] = "}"
  /\ line[2] \in PayloadKinds

JsonParse(line) == Payload(line[2])

\* chunk.choices[0].delta.content evaluates (does not throw a TypeError)
HasDelta(chunk) ==
  /\ "choices" \in DOMAIN chunk
  /\ Len(chunk.choices) >= 1
  /\ "delta" \in DOMAIN chunk.choices[1]

\* (chunk.choices[0].delta.content ?? '').replace(/^BT\s*/, 'BT'), BT the backtick
ContentChunkTrimmed(chunk) ==
  LET d == chunk.choices[1].delta
      c == IF "content" \in DOMAIN d THEN d.content ELSE <<>>
  IN Trim(IF c # <<>> /\ Head(c) = BT THEN <<BT>> \o TrimStart(Tail(c)) ELSE c)

ContentChunk(chunk) ==
  LET d == chunk.choices[1].delta
      c == IF "content" \in DOMAIN d THEN d.content ELSE <<>>
  IN IF c # <<>> /\ Head(c) = BT THEN <<BT>> \o TrimStart(Tail(c)) ELSE c

\* chunk.choices[0].delta.role ?? ''
RoleChunk(chunk) ==
  LET d == chunk.choices[1].delta
  IN IF "role" \in DOMAIN d THEN d.role ELSE <<>>

RECURSIVE MapStrip(_)
MapStrip(lines) ==
  IF lines = <<>> THEN <<>> ELSE <<StripLine(Head(lines))>> \o MapStrip(Tail(lines))

DeliverableFirst(lines) ==
  IF lines = <<>> \/ ~HasDelta(JsonParse(Head(lines)))
    THEN <<>>
    ELSE <<[content |-> ContentChunk(JsonParse(Head(lines))),
            role |-> RoleChunk(JsonParse(Head(lines)))]>>

\* The (contentChunk, roleChunk) pairs the loop of lines 68-77 hands to
\* onIncomingChunk before it ends or throws.
RECURSIVE Deliverable(_)
Deliverable(lines) ==
  IF lines = <<>> \/ ~HasDelta(JsonParse(Head(lines)))
    THEN <<>>
    ELSE <<[content |-> ContentChunk(JsonParse(Head(lines))),
            role |-> RoleChunk(JsonParse(Head(lines)))]>> \o Deliverable(Tail(lines))

\* One iteration of the for-await loop on the bytes newData: the deltas it
\* delivers and how it ends.
DecodeChunk(newData) ==
  LET lines == SelectSeq(MapStrip(SplitLines(newData)), KeepLine)
      ok == \A i \in 1..Len(lines) : IsJson(lines[i])
      out == IF ok THEN Deliverable(lines) ELSE <<>>
  IN [deltas |-> out,
      error |-> IF ~ok THEN "SyntaxError"
                ELSE IF Len(out) < Len(lines) THEN "TypeError"
                ELSE "none"]

-----------------------------------------------------------------------------
(* Request options.  An object is the sequence of its <<key, value>>        *)
(* members in insertion order, the order in which JSON.stringify writes     *)
(* them.                                                                     *)

Keys(obj) == {obj[i][1] : i \in 1..Len(obj)}

\* obj[k]
Get(obj, k) == obj[CHOOSE i \in 1..Len(obj) : obj[i][1] = k][2]

\* A member k: v of an object literal after the members obj: an existing key
\* keeps its place and takes the new value
Put(obj, k, v) ==
  IF k \in Keys(obj)
    THEN [i \in 1..Len(obj) |-> IF obj[i][1] = k THEN <<k, v>> ELSE obj[i]]
    ELSE Append(obj, <<k, v>>)

\* ...members in an object literal after the members obj
RECURSIVE Spread(_, _)
Spread(obj, members) ==
  IF members = <<>> THEN obj
  ELSE Spread(Put(obj, Head(members)[1], Head(members)[2]), Tail(members))

\* The rest pattern { apiKey, model, ...restOfApiParams }
RestOf(obj, taken) == SelectSeq(obj, LAMBDA member : member[1] \notin taken)

getOpenAiRequestOptionsSpreadLast(params, msgs, signal) ==
  [headers |-> <<<<"Content-Type", "application/json">>,
                 <<"Authorization", <<"Bearer ", Get(params, "apiKey")>>>>>>,
   method |-> "POST",
   body |-> Spread(<<<<"model", Get(params, "model")>>, <<"messages", msgs>>, <<"stream", TRUE>>>>,
                   RestOf(params, {"apiKey", "model"})),
   signal |-> signal]

\* getOpenAiRequestOptions (chat-stream-handler.ts:11-29); body holds the
\* members of the JSON text
getOpenAiRequestOptions(params, msgs, signal) ==
  LET apiKey == Get(params, "apiKey")
      model == Get(params, "model")
      restOfApiParams == RestOf(params, {"apiKey", "model"})
  IN [headers |-> <<<<"Content-Type", "application/json">>,
                    <<"Authorization", <<"Bearer ", apiKey>>>>>>,
      method |-> "POST",
      body |-> Put(Put(Spread(<<<<"model", model>>>>, restOfApiParams), "messages", msgs),
                   "stream", TRUE),
      signal |-> signal]

-----------------------------------------------------------------------------
(* Chat messages *)

MetaKeys == {"loading", "responseTime", "chunks"}

DefaultMetaLoading == [loading |-> TRUE, responseTime |-> <<>>, chunks |-> <<>>]

\* The defaults of meta (chat-hook.ts:33-36)
DefaultMeta == [loading |-> FALSE, responseTime |-> <<>>, chunks |-> <<>>]

createChatMessageOr(p, t) ==
  LET m == IF "meta" \in DOMAIN p THEN p.meta ELSE [k \in {} |-> FALSE]
  IN [content |-> p.content,
      role |-> p.role,
      timestamp |-> IF "timestamp" \in DOMAIN p /\ p.timestamp # 0 THEN p.timestamp ELSE t,
      meta |-> [k \in MetaKeys |-> IF k \in DOMAIN m THEN m[k] ELSE DefaultMeta[k]]]

\* createChatMessage (chat-hook.ts:25-39); t is Date.now()
createChatMessage(p, t) ==
  LET m == IF "meta" \in DOMAIN p THEN p.meta ELSE [k \in {} |-> FALSE]
  IN [content |-> p.content,
      role |-> p.role,
      timestamp |-> IF "timestamp" \in DOMAIN p THEN p.timestamp ELSE t,
      meta |-> [k \in MetaKeys |-> IF k \in DOMAIN m THEN m[k] ELSE DefaultMeta[k]]]

officialOpenAIParamsAll(m) == m

\* officialOpenAIParams (chat-hook.ts:18-21)
officialOpenAIParams(m) == [content |-> m.content, role |-> m.role]

\* newMessages.map(createChatMessage)
MapCreate(list, t) == [i \in 1..Len(list) |-> createChatMessage(list[i], t)]

\* The messages of a list, the arguments a message updater may be given
Items(list) == {list[i] : i \in 1..Len(list)}

updateLastItemAll(msgFn, currentMessages) ==
  [i \in 1..Len(currentMessages) |-> msgFn[currentMessages[i]]]

\* updateLastItem (chat-hook.ts:42-50); msgFn is a function on messages
updateLastItem(msgFn, currentMessages) ==
  [i \in 1..Len(currentMessages) |->
     IF Len(currentMessages) - 1 = i - 1 THEN msgFn[currentMessages[i]] ELSE currentMessages[i]]

handleNewDataOverwrite(currentMessages, chunkContent, chunkRole, t) ==
  LET msgFn == [msg \in Items(currentMessages) |->
        [content |-> chunkContent,
         role |-> chunkRole,
         timestamp |-> 0,
         meta |-> [msg.meta EXCEPT !.chunks =
                     Append(@, [content |-> chunkContent, role |-> chunkRole, timestamp |-> t])]]]
  IN updateLastItem(msgFn, currentMessages)

handleNewDataContentTokens(currentMessages, chunkContent, chunkRole, t) ==
  LET msgFn == [msg \in Items(currentMessages) |->
        [content |-> msg.content \o chunkContent,
         role |-> msg.role \o chunkRole,
         timestamp |-> 0,
         meta |-> [msg.meta EXCEPT !.chunks =
                     IF chunkContent = <<>>
                       THEN @
                       ELSE Append(@, [content |-> chunkContent, role |-> chunkRole, timestamp |-> t])]]]
  IN updateLastItem(msgFn, currentMessages)

handleNewDataDedup(currentMessages, chunkContent, chunkRole, t) ==
  LET msgFn == [msg \in Items(currentMessages) |->
        [content |-> msg.content \o chunkContent,
         role |-> msg.role \o chunkRole,
         timestamp |-> 0,
         meta |-> [msg.meta EXCEPT !.chunks =
                     IF @ # <<>> /\ @[Len(@)].content = chunkContent /\ @[Len(@)].role = chunkRole
                       THEN @
                       ELSE Append(@, [content |-> chunkContent, role |-> chunkRole, timestamp |-> t])]]]
  IN updateLastItem(msgFn, currentMessages)

\* The state updater of handleNewData (chat-hook.ts:82-101); t is Date.now()
handleNewData(currentMessages, chunkContent, chunkRole, t) ==
  LET msgFn == [msg \in Items(currentMessages) |->
        [content |-> msg.content \o chunkContent,
         role |-> msg.role \o chunkRole,
         timestamp |-> 0,
         meta |-> [msg.meta EXCEPT !.chunks =
                     Append(@, [content |-> chunkContent, role |-> chunkRole, timestamp |-> t])]]]
  IN updateLastItem(msgFn, currentMessages)

\* The updaters of every onIncomingChunk call of one loop iteration, in order
RECURSIVE ApplyDeltas(_, _, _)
ApplyDeltas(currentMessages, deltas, t) ==
  IF deltas = <<>>
    THEN currentMessages
    ELSE ApplyDeltas(handleNewData(currentMessages, Head(deltas).content, Head(deltas).role, t),
                     Tail(deltas), t)

Digit(d) == <<"0", "1", "2", "3", "4", "5", "6", "7", "8", "9">>[d + 1]

RECURSIVE Digits(_)
Digits(n) == IF n < 10 THEN <<Digit(n)>> ELSE Digits(n \div 10) \o <<Digit(n % 10)>>

\* diffInSeconds.toFixed(2) + ' sec.' for diffInSeconds = diffMs / MILLISECONDS_PER_SECOND,
\* diffMs >= 0: the nearest multiple of 0.01
FormattedDiff(diffMs) ==
  LET hundredths == (diffMs * 100 + MILLISECONDS_PER_SECOND \div 2) \div MILLISECONDS_PER_SECOND
  IN Digits(hundredths \div 100)
       \o <<".", Digit((hundredths \div 10) % 10), Digit(hundredths % 10)>>
       \o <<" sec.">>

closeStreamStampsBefore(currentMessages, beforeTimestamp, t) ==
  LET msgFn == [msg \in Items(currentMessages) |->
        [msg EXCEPT !.timestamp = beforeTimestamp,
                    !.meta = [@ EXCEPT !.loading = FALSE,
                                       !.responseTime = FormattedDiff(t - beforeTimestamp)]]]
  IN updateLastItem(msgFn, currentMessages)

closeStreamStillLoading(currentMessages, beforeTimestamp, t) ==
  LET msgFn == [msg \in Items(currentMessages) |->
        [msg EXCEPT !.timestamp = t,
                    !.meta = [@ EXCEPT !.responseTime = FormattedDiff(t - beforeTimestamp)]]]
  IN updateLastItem(msgFn, currentMessages)

\* The state updater of closeStream (chat-hook.ts:104-124); t is Date.now()
closeStream(currentMessages, beforeTimestamp, t) ==
  LET afterTimestamp == t
      msgFn == [msg \in Items(currentMessages) |->
        [msg EXCEPT !.timestamp = afterTimestamp,
                    !.meta = [@ EXCEPT !.loading = FALSE,
                                       !.responseTime = FormattedDiff(afterTimestamp - beforeTimestamp)]]]
  IN updateLastItem(msgFn, currentMessages)

TailLoadingFirst(list) == list # <<>> /\ list[1].meta.loading

\* messages[messages.length - 1]?.meta?.loading (chat-hook.ts:130)
TailLoading(list) == list # <<>> /\ list[Len(list)].meta.loading

PlaceholderStamped(t) ==
  createChatMessage([content |-> <<>>, role |-> <<>>, meta |-> [loading |-> TRUE]], t)

\* The placeholder of submitPrompt (chat-hook.ts:144-149); t is Date.now()
Placeholder(t) ==
  createChatMessage([content |-> <<>>, role |-> <<>>, timestamp |-> 0,
                     meta |-> [loading |-> TRUE]], t)

-----------------------------------------------------------------------------
(* Inputs *)

UserHi == [content |-> <<"hi">>, role |-> <<"user">>]
SystemBrief == [content |-> <<"be brief">>, role |-> <<"system">>, timestamp |-> 0]
Busy == [content |-> <<"wait">>, role |-> <<"user">>, meta |-> [loading |-> TRUE]]

\* An argument newMessages?: given is FALSE when the call passes none
NoArg == [given |-> FALSE, list |-> <<>>]
Arg(list) == [given |-> TRUE, list |-> list]

PromptArgs == {NoArg, Arg(<<>>), Arg(<<UserHi>>), Arg(<<SystemBrief, UserHi>>)}
SetArgs == {Arg(<<UserHi>>), Arg(<<Busy>>), Arg(<<Busy, UserHi>>)}

\* The parameters of the hook
TestParams == <<<<"apiKey", "1234">>, <<"model", "gpt-3.5-turbo">>>>
TunedParams == TestParams \o <<<<"max_tokens", 300>>, <<"top_p", 1>>>>
ShadowParams ==
  <<<<"stream", FALSE>>, <<"apiKey", "abcd">>, <<"messages", <<>>>>,
    <<"model", "gpt-4">>, <<"max_tokens", 300>>>>
ParamSets == {TestParams, TunedParams, ShadowParams}

\* Response bodies: frames "data: <payload>\n\n"
Frame(payload) == <<DATA, SP>> \o payload \o <<NL, NL>>
RoleFrame == Frame(Json("role"))
ContentFrame == Frame(Json("content"))
BadFrame == Frame(BadJson)
DoneFrame == Frame(<<DONE>>)

ValidBody == RoleFrame \o ContentFrame \o DoneFrame
BadBody == RoleFrame \o BadFrame \o ContentFrame \o DoneFrame
EmptyBody == <<>>
Bodies == {ValidBody, BadBody, EmptyBody}

\* Bodies with a frame after the sentinel, a payload without choices[0], a
\* frame without data, and the same delta twice
AfterDoneBody == RoleFrame \o DoneFrame \o ContentFrame
NoDeltaBody == RoleFrame \o Frame(Json("nochoices")) \o ContentFrame \o DoneFrame
NoDataBody == RoleFrame \o Frame(<<>>) \o ContentFrame \o DoneFrame
TwiceBody == ContentFrame \o ContentFrame \o DoneFrame
TickBody ==
  Frame(Json("tick")) \o Frame(Json("spaced")) \o Frame(Json("midtick")) \o DoneFrame
FrameBodies ==
  {ValidBody, BadBody, AfterDoneBody, NoDeltaBody, NoDataBody, TwiceBody, TickBody}

\* The body of an error response of the API: one JSON object, no frame
ErrorBody == Json("error")

\* Responses with response.ok = false (a non-2XX status), with and without body
NotOkResponses ==
  {[hasBody |-> FALSE, body |-> <<>>],
   [hasBody |-> TRUE, body |-> EmptyBody],
   [hasBody |-> TRUE, body |-> ErrorBody]}

-----------------------------------------------------------------------------
(* State *)

\* The values a render hands to the callbacks it creates
Snapshot(m, l, c) == [messages |-> m, loading |-> l, controller |-> c]

\* Every state update is followed by a render, and the caller picks up the
\* callbacks of that render before its next call
Rerender ==
  /\ view' = Snapshot(messages', loading', controller')
  /\ apiParams' = apiParams

\* One accepted submitPrompt call between its state updates (lines 137-158) and
\* the settling of the promise it awaits (lines 173-193)
NewRequest(sent, t) ==
  [pc |-> "fetching",        \* fetching, streaming, resolved, rejected
   opts |-> <<>>,            \* requestOpts (chat-hook.ts:160-171)
   before |-> t,             \* beforeTimestamp (chat-stream-handler.ts:43)
   sent |-> sent,            \* the messages of the request body
   body |-> <<>>,            \* the text of response.body
   rest |-> <<>>,            \* the part of it not yet read
   aborted |-> FALSE,        \* signal.aborted
   abortCalled |-> FALSE,    \* history: abortResponse reached controller.abort()
   aligned |-> TRUE,         \* history: every chunk read so far ended at a frame boundary
   reads |-> 0,              \* history: the number of chunks read that carried data
   delivered |-> <<>>,       \* history: the arguments of the onIncomingChunk calls
   closed |-> 0,             \* history: the number of onCloseStream calls
   closedWith |-> <<>>,      \* history: the arguments of the onCloseStream calls
   ok |-> TRUE,              \* history: response.ok of the response fetch resolved with
   returned |-> <<>>,        \* history: the value the handler's promise resolved with; <<>> is undefined
   promise |-> "pending",    \* history: the promise submitPrompt returned: pending, fulfilled, rejected
   logged |-> <<>>,          \* history: the console.error calls of the catch block
   error |-> "none"]

\* A settled request leaves nothing behind in the program; its record is kept,
\* as history, until a request starts while none is in flight
Forget(rs) ==
  IF \E q \in 1..Len(rs) : rs[q].pc \in {"fetching", "streaming"} THEN rs ELSE <<>>

Init ==
  /\ messages = <<>>
  /\ loading = FALSE
  /\ controller = 0
  /\ reqs = <<>>
  /\ now = 1
  /\ view = Snapshot(<<>>, FALSE, 0)
  /\ apiParams = TestParams

InFlight(r) == reqs[r].pc \in {"fetching", "streaming"}

-----------------------------------------------------------------------------
(* The callbacks of the hook *)

\* updatedMessages.filter((m, i) => updatedMessages.length - 1 !== i).map(officialOpenAIParams)
RequestMessages(updatedMessages) ==
  [i \in 1..(Len(updatedMessages) - 1) |-> officialOpenAIParams(updatedMessages[i])]

\* submitPrompt (chat-hook.ts:126-196) up to its await: the state updates
submitPrompt(arg) ==
  LET accepted == ~TailLoading(view.messages) /\ arg.given /\ Len(arg.list) >= 1
      updatedMessages == view.messages \o MapCreate(arg.list, now) \o <<Placeholder(now)>>
      id == Len(Forget(reqs)) + 1
  IN /\ accepted => Len(updatedMessages) <= MaxLen
     /\ IF accepted
          THEN /\ loading' = TRUE
               /\ messages' = updatedMessages
               /\ controller' = id
               /\ reqs' = Append(Forget(reqs),
                                 [NewRequest(RequestMessages(updatedMessages), now)
                                    EXCEPT !.opts = getOpenAiRequestOptions(
                                                      apiParams, RequestMessages(updatedMessages), id)])
          ELSE UNCHANGED <<messages, loading, controller, reqs>>
     /\ UNCHANGED now

\* A call of submitPrompt, after which the caller takes the callbacks of the
\* next render
SubmitPrompt(arg) ==
  /\ submitPrompt(arg)
  /\ Rerender

\* A call of submitPrompt after which the caller goes on with the callbacks
\* it holds: a second call follows in the same tick, or through a callback
\* kept from this render
SubmitPromptHeld(arg) ==
  /\ submitPrompt(arg)
  /\ Len(reqs') <= MaxInFlight
  /\ UNCHANGED <<view, apiParams>>

\* The caller takes the callbacks of the latest render
Render ==
  /\ view' = Snapshot(messages, loading, controller)
  /\ UNCHANGED <<messages, loading, controller, reqs, now, apiParams>>

AbortForgotten(rs, c) == rs

\* controller.abort() (chat-hook.ts:62)
Abort(rs, c) == [rs EXCEPT ![c].aborted = TRUE]

AbortResponseUnguarded ==
  /\ reqs' = [r \in 1..Len(reqs) |-> [reqs[r] EXCEPT !.aborted = TRUE, !.abortCalled = TRUE]]
  /\ controller' = 0
  /\ UNCHANGED <<messages, loading, now>>
  /\ Rerender

\* abortResponse (chat-hook.ts:60-65)
AbortResponse ==
  /\ IF view.controller # 0
       THEN /\ reqs' = [Abort(reqs, view.controller) EXCEPT ![view.controller].abortCalled = TRUE]
            /\ controller' = 0
       ELSE UNCHANGED <<reqs, controller>>
  /\ UNCHANGED <<messages, loading, now>>
  /\ Rerender

ResetMessagesAlways ==
  /\ messages' = <<>>
  /\ UNCHANGED <<loading, controller, reqs, now>>
  /\ Rerender

\* resetMessages (chat-hook.ts:68-72)
ResetMessages ==
  /\ messages' = IF ~view.loading THEN <<>> ELSE messages
  /\ UNCHANGED <<loading, controller, reqs, now>>
  /\ Rerender

SetMessagesUnguarded(arg) ==
  /\ messages' = MapCreate(arg.list, now)
  /\ UNCHANGED <<loading, controller, reqs, now>>
  /\ Rerender

\* setMessages (chat-hook.ts:75-79)
SetMessages(arg) ==
  /\ messages' = IF ~view.loading THEN MapCreate(arg.list, now) ELSE messages
  /\ UNCHANGED <<loading, controller, reqs, now>>
  /\ Rerender

-----------------------------------------------------------------------------
(* openAiStreamingDataHandler and the rest of submitPrompt *)

\* The catch block of submitPrompt (chat-hook.ts:182-187): the error is
\* logged and not rethrown, so the promise of submitPrompt fulfils
Caught(rs, r, why) ==
  [rs EXCEPT ![r].pc = "rejected",
             ![r].error = why,
             ![r].rest = <<>>,
             ![r].logged = Append(@, IF rs[r].aborted
                                       THEN "Request aborted"
                                       ELSE "Error during chat response streaming"),
             ![r].promise = "fulfilled"]

RejectsClosing(r, why) ==
  /\ reqs' = [Caught(reqs, r, why) EXCEPT ![r].closed = @ + 1,
                                          ![r].closedWith = Append(@, reqs[r].before)]
  /\ controller' = 0
  /\ loading' = FALSE

RejectsStillLoading(r, why) ==
  /\ reqs' = Caught(reqs, r, why)
  /\ controller' = 0
  /\ loading' = loading

RejectsKeepsController(r, why) ==
  /\ reqs' = Caught(reqs, r, why)
  /\ controller' = controller
  /\ loading' = FALSE

\* The promise awaited at chat-hook.ts:175 rejects: catch (lines 182-187) and
\* finally (lines 188-193)
Rejects(r, why) ==
  /\ reqs' = Caught(reqs, r, why)
  /\ controller' = 0
  /\ loading' = FALSE

\* fetch resolves with a response that has a body (chat-stream-handler.ts:46-53)
FetchBody(r, body) ==
  /\ reqs[r].pc = "fetching"
  /\ ~reqs[r].aborted
  /\ reqs' = [reqs EXCEPT ![r].pc = "streaming", ![r].body = body, ![r].rest = body]
  /\ UNCHANGED <<messages, loading, controller, now>>
  /\ Rerender

FetchNoBodyRead(r) ==
  /\ reqs[r].pc = "fetching"
  /\ ~reqs[r].aborted
  /\ reqs' = [reqs EXCEPT ![r].pc = "streaming"]
  /\ UNCHANGED <<messages, loading, controller, now>>
  /\ Rerender

\* fetch resolves with a response without body (chat-stream-handler.ts:49-51)
FetchNoBody(r) ==
  /\ reqs[r].pc = "fetching"
  /\ ~reqs[r].aborted
  /\ Rejects(r, "No body")
  /\ UNCHANGED <<messages, now>>
  /\ Rerender

\* fetch resolves with a response whose status is not 2XX; the handler does
\* not read response.ok or response.status (chat-stream-handler.ts:46-53)
FetchNotOk(r, response) ==
  /\ reqs[r].pc = "fetching"
  /\ ~reqs[r].aborted
  /\ IF response.hasBody
       THEN /\ reqs' = [reqs EXCEPT ![r].pc = "streaming", ![r].ok = FALSE,
                                     ![r].body = response.body, ![r].rest = response.body]
            /\ UNCHANGED <<loading, controller>>
       ELSE /\ reqs' = [Caught(reqs, r, "No body") EXCEPT ![r].ok = FALSE]
            /\ controller' = 0
            /\ loading' = FALSE
  /\ UNCHANGED <<messages, now>>
  /\ Rerender

\* fetch rejects, or a read of the body fails, for a reason other than an abort
NetworkError(r) ==
  /\ InFlight(r)
  /\ ~reqs[r].aborted
  /\ Rejects(r, "network")
  /\ UNCHANGED <<messages, now>>
  /\ Rerender

\* The signal of the request was aborted: fetch, or the pending read of the
\* body, rejects with an AbortError
AbortError(r) ==
  /\ InFlight(r)
  /\ reqs[r].aborted
  /\ Rejects(r, "AbortError")
  /\ UNCHANGED <<messages, now>>
  /\ Rerender

\* The lengths of the chunks that hold zero or more whole frames of s
WholeFrames(s) == {0, Len(s)} \cup {n \in 2..Len(s) : s[n - 1] = NL /\ s[n] = NL}

EndsAtBoundary(chunk) ==
  chunk = <<>> \/ (Len(chunk) >= 2 /\ SubSeq(chunk, Len(chunk) - 1, Len(chunk)) = <<NL, NL>>)

\* One iteration of the for-await loop (chat-stream-handler.ts:53-78) on the
\* next n symbols of the body
ReadChunk(r, n) ==
  LET newData == SubSeq(reqs[r].rest, 1, n)
      d == DecodeChunk(newData)
      read == [reqs EXCEPT ![r].rest = SubSeq(@, n + 1, Len(@)),
                           ![r].delivered = @ \o d.deltas,
                           ![r].aligned = @ /\ EndsAtBoundary(newData),
                           ![r].reads = IF n = 0 THEN @ ELSE @ + 1]
  IN /\ reqs[r].pc = "streaming"
     /\ ~reqs[r].aborted
     /\ reqs[r].rest # <<>>
     /\ messages' = ApplyDeltas(messages, d.deltas, now)
     /\ IF d.error = "none"
          THEN /\ reqs' = read
               /\ UNCHANGED <<loading, controller>>
          ELSE /\ reqs' = Caught(read, r, d.error)
               /\ controller' = 0
               /\ loading' = FALSE
     /\ UNCHANGED now
     /\ Rerender

\* The body is exhausted: onCloseStream (chat-stream-handler.ts:80), the
\* promise resolves, finally (chat-hook.ts:188-193)
StreamEnd(r) ==
  /\ reqs[r].pc = "streaming"
  /\ ~reqs[r].aborted
  /\ reqs[r].rest = <<>>
  /\ messages' = closeStream(messages, reqs[r].before, now)
  /\ reqs' = [reqs EXCEPT ![r].pc = "resolved",
                           ![r].closed = @ + 1,
                           ![r].closedWith = Append(@, reqs[r].before),
                           ![r].returned = <<>>,
                           ![r].promise = "fulfilled"]
  /\ controller' = 0
  /\ loading' = FALSE
  /\ UNCHANGED now
  /\ Rerender

\* Time passes
Tick ==
  /\ now < MaxTime
  /\ now' = now + 1
  /\ UNCHANGED <<messages, loading, controller, reqs, view, apiParams>>

Next ==
  \/ \E arg \in PromptArgs : SubmitPrompt(arg)
  \/ AbortResponse
  \/ ResetMessages
  \/ \E arg \in SetArgs : SetMessages(arg)
  \/ \E r \in 1..Len(reqs), body \in Bodies : FetchBody(r, body)
  \/ \E r \in 1..Len(reqs) : FetchNoBody(r)
  \/ \E r \in 1..Len(reqs), response \in NotOkResponses : FetchNotOk(r, response)
  \/ \E r \in 1..Len(reqs) : NetworkError(r)
  \/ \E r \in 1..Len(reqs) : AbortError(r)
  \/ \E r \in 1..Len(reqs) : \E n \in WholeFrames(reqs[r].rest) : ReadChunk(r, n)
  \/ \E r \in 1..Len(reqs) : StreamEnd(r)
  \/ Tick

\* The hook, with a network that delivers whole frames
Spec == Init /\ [][Next]_vars

NextChunks ==
  \/ \E arg \in PromptArgs : SubmitPrompt(arg)
  \/ \E r \in 1..Len(reqs), body \in Bodies : FetchBody(r, body)
  \/ \E r \in 1..Len(reqs) : \E n \in 0..Len(reqs[r].rest) : ReadChunk(r, n)
  \/ \E r \in 1..Len(reqs) : StreamEnd(r)
  \/ Tick

\* The requests of the hook, with a network that cuts the body anywhere
SpecChunks == Init /\ [][NextChunks]_vars

NextFrames ==
  \/ \E arg \in PromptArgs : SubmitPrompt(arg)
  \/ \E r \in 1..Len(reqs), body \in FrameBodies : FetchBody(r, body)
  \/ \E r \in 1..Len(reqs) : \E n \in WholeFrames(reqs[r].rest) : ReadChunk(r, n)
  \/ \E r \in 1..Len(reqs) : StreamEnd(r)
  \/ Tick

\* The requests of the hook on streams of every kind of frame, delivered in
\* chunks of whole frames
SpecFrames == Init /\ [][NextFrames]_vars

NextHeld ==
  \/ \E arg \in PromptArgs : SubmitPromptHeld(arg)
  \/ Render
  \/ \E r \in 1..Len(reqs) : FetchBody(r, ValidBody)
  \/ \E r \in 1..Len(reqs) : \E n \in WholeFrames(reqs[r].rest) : ReadChunk(r, n)
  \/ \E r \in 1..Len(reqs) : StreamEnd(r)
  \/ Tick

\* The hook with a caller that may call submitPrompt again before it has
\* taken the callbacks of the next render
SpecHeld == Init /\ [][NextHeld]_vars

\* The steps of the runtime on a request: fetch settles, a chunk of a finite
\* body is read, the body ends
Settling ==
  \/ \E r \in 1..Len(reqs), body \in Bodies : FetchBody(r, body)
  \/ \E r \in 1..Len(reqs) : FetchNoBody(r)
  \/ \E r \in 1..Len(reqs) : NetworkError(r)
  \/ \E r \in 1..Len(reqs) : AbortError(r)
  \/ \E r \in 1..Len(reqs) : \E n \in WholeFrames(reqs[r].rest) : ReadChunk(r, n)
  \/ \E r \in 1..Len(reqs) : StreamEnd(r)

NextLive ==
  \/ \E arg \in PromptArgs : SubmitPrompt(arg)
  \/ AbortResponse
  \/ Settling
  \/ Tick

\* The requests of the hook with a runtime that settles every fetch and reads
\* every finite body to its end
SpecLive == Init /\ [][NextLive]_vars /\ WF_vars(Settling)

InitOptions ==
  /\ messages = <<>>
  /\ loading = FALSE
  /\ controller = 0
  /\ reqs = <<>>
  /\ now = 1
  /\ view = Snapshot(<<>>, FALSE, 0)
  /\ apiParams \in ParamSets

NextOptions ==
  \/ \E arg \in PromptArgs : SubmitPrompt(arg)
  \/ \E r \in 1..Len(reqs) : FetchBody(r, ValidBody)
  \/ \E r \in 1..Len(reqs) : \E n \in WholeFrames(reqs[r].rest) : ReadChunk(r, n)
  \/ \E r \in 1..Len(reqs) : StreamEnd(r)
  \/ Tick

\* The requests of the hook for each of the parameter sets
SpecOptions == InitOptions /\ [][NextOptions]_vars

-----------------------------------------------------------------------------
(* Properties *)

Settled(r) == reqs[r].pc \in {"resolved", "rejected"}
NonEmpty(arg) == arg.given /\ arg.list # <<>>
LastOf(list) == list[Len(list)]
SamePrefix(old, new) ==
  /\ Len(new) >= Len(old) - 1
  /\ \A i \in 1..(Len(old) - 1) : new[i] = old[i]

\* C1: submitPrompt with a non-empty list while the tail message is loading
\* changes nothing (no message, no new request, no controller), and at most
\* one request is in flight at any time.
C1_SubmitWhileLoadingIgnored ==
  /\ [](Cardinality({r \in 1..Len(reqs) : InFlight(r)}) <= 1)
  /\ [][\A arg \in PromptArgs :
          (SubmitPrompt(arg) /\ NonEmpty(arg) /\ TailLoading(messages))
            => UNCHANGED <<messages, reqs, loading, controller>>]_vars

\* A request is streaming into the loading tail message, and submitPrompt can
\* be called there with a non-empty list.
C1_Witness ==
  /\ TailLoading(messages)
  /\ \E r \in 1..Len(reqs) : reqs[r].pc = "streaming" /\ reqs[r].delivered # <<>>
  /\ ENABLED SubmitPrompt(Arg(<<UserHi>>))

\* C2 (as claimed): every request that has reached a terminal outcome has
\* called the finalize transition exactly once.
C2_EveryTerminalPathFinalizes ==
  \A r \in 1..Len(reqs) : Settled(r) => reqs[r].closed = 1

C4_NoDeltaAfterAbort ==
  /\ [](\A r \in 1..Len(reqs) : reqs[r].abortCalled => reqs[r].pc # "resolved")
  /\ [][AbortResponse => messages' = messages]_vars
  /\ [][\A r \in 1..Len(reqs) :
          (reqs[r].abortCalled /\ InFlight(r))
            => /\ messages' = messages
               /\ reqs'[r].delivered = reqs[r].delivered
               /\ reqs'[r].closed = reqs[r].closed
               /\ reqs'[r].pc \in {reqs[r].pc, "rejected"}]_vars

\* A response was aborted after deltas had arrived: the request has ended with
\* an AbortError, unread frames were dropped, and the partial content is
\* still in the tail message.
C4_Witness ==
  \E r \in 1..Len(reqs) :
    /\ reqs[r].abortCalled
    /\ reqs[r].error = "AbortError"
    /\ Len(reqs[r].delivered) = 1
    /\ reqs[r].body = ValidBody
    /\ messages # <<>>
    /\ LastOf(messages).role = Assistant
    /\ Len(LastOf(messages).meta.chunks) = 1

\* What one uninterrupted read of the whole body delivers
Reference(body) == DecodeChunk(body).deltas

\* C5 (as claimed): however the bytes of a valid frame stream are cut into
\* chunks, the handler does not fail and delivers the deltas that the uncut
\* stream delivers.
C5_ChunkBoundaryIndependence ==
  \A r \in 1..Len(reqs) :
    reqs[r].body = ValidBody
      => /\ reqs[r].error = "none"
         /\ reqs[r].pc = "resolved" => reqs[r].delivered = Reference(ValidBody)

\* C6 (as claimed): the stream [role frame, malformed frame, content frame,
\* DONE], read frame by frame and not cut short by the network or an abort,
\* reaches its close with exactly the two well-formed deltas applied.
C6_MalformedFrameSkipped ==
  \A r \in 1..Len(reqs) :
    (reqs[r].body = BadBody /\ Settled(r) /\ reqs[r].error \notin {"network", "AbortError"})
      => /\ reqs[r].pc = "resolved"
         /\ reqs[r].delivered = <<[content |-> <<>>, role |-> Assistant],
                                  [content |-> The, role |-> <<>>]>>

\* C7: an accepted submitPrompt with N >= 1 entries on a list of length L
\* yields a list of length L + N + 1: the L old messages unchanged, the N
\* entries in the order given, and the placeholder last; and as long as no
\* frame has arrived the tail is that empty, loading placeholder.
C7_SubmitAppendsPlaceholder ==
  /\ [](\A r \in 1..Len(reqs) :
          reqs[r].pc = "fetching"
            => /\ messages # <<>>
               /\ LastOf(messages) =
                    [content |-> <<>>, role |-> <<>>, timestamp |-> 0,
                     meta |-> [loading |-> TRUE, responseTime |-> <<>>, chunks |-> <<>>]])
  /\ [][\A arg \in PromptArgs :
          (SubmitPrompt(arg) /\ NonEmpty(arg) /\ ~TailLoading(messages))
            => LET L == Len(messages)
                   N == Len(arg.list)
               IN /\ Len(messages') = L + N + 1
                  /\ \A i \in 1..L : messages'[i] = messages[i]
                  /\ \A i \in 1..N :
                       /\ messages'[L + i].content = arg.list[i].content
                       /\ messages'[L + i].role = arg.list[i].role
                  /\ messages'[L + N + 1].content = <<>>
                  /\ messages'[L + N + 1].role = <<>>
                  /\ messages'[L + N + 1].timestamp = 0
                  /\ messages'[L + N + 1].meta =
                       [loading |-> TRUE, responseTime |-> <<>>, chunks |-> <<>>]]_vars

\* Two entries were submitted on top of a completed exchange and no frame has
\* arrived yet.
C7_Witness ==
  \E r \in 1..Len(reqs) :
    /\ reqs[r].pc = "fetching"
    /\ Len(reqs[r].sent) = 4
    /\ Len(messages) = 5
    /\ messages[3].role = <<"system">>
    /\ messages[4].role = <<"user">>
    /\ ~messages[2].meta.loading

RECURSIVE JoinContent(_)
JoinContent(ds) == IF ds = <<>> THEN <<>> ELSE Head(ds).content \o JoinContent(Tail(ds))

RECURSIVE JoinRole(_)
JoinRole(ds) == IF ds = <<>> THEN <<>> ELSE Head(ds).role \o JoinRole(Tail(ds))

\* C8: a read that delivers the deltas d1..dk changes only the tail message:
\* its content and role grow by the contents and roles of d1..dk in order,
\* one token per delta, stamped with the time of the read, is appended to
\* meta.chunks, and its loading flag and responseTime are untouched; after the
\* role delta 'assistant' and the content delta 'The' the tail has role
\* 'assistant', content 'The' and those two tokens in that order.
C8_DeltaFold ==
  /\ [](\A r \in 1..Len(reqs) :
          (/\ reqs[r].pc = "streaming"
           /\ reqs[r].delivered = <<[content |-> <<>>, role |-> Assistant],
                                    [content |-> The, role |-> <<>>]>>)
            => /\ LastOf(messages).role = Assistant
               /\ LastOf(messages).content = The
               /\ Len(LastOf(messages).meta.chunks) = 2
               /\ LastOf(messages).meta.chunks[1].role = Assistant
               /\ LastOf(messages).meta.chunks[1].content = <<>>
               /\ LastOf(messages).meta.chunks[2].role = <<>>
               /\ LastOf(messages).meta.chunks[2].content = The)
  /\ [][\A r \in 1..Len(reqs) : \A n \in 0..Len(reqs[r].rest) :
          ReadChunk(r, n)
            => LET old == LastOf(messages)
                   new == LastOf(messages')
                   k == Len(reqs'[r].delivered) - Len(reqs[r].delivered)
                   ds == SubSeq(reqs'[r].delivered, Len(reqs[r].delivered) + 1,
                                Len(reqs'[r].delivered))
               IN /\ Len(messages') = Len(messages)
                  /\ SamePrefix(messages, messages')
                  /\ new.content = old.content \o JoinContent(ds)
                  /\ new.role = old.role \o JoinRole(ds)
                  /\ Len(new.meta.chunks) = Len(old.meta.chunks) + k
                  /\ \A i \in 1..Len(old.meta.chunks) : new.meta.chunks[i] = old.meta.chunks[i]
                  /\ \A i \in 1..k :
                       new.meta.chunks[Len(old.meta.chunks) + i] =
                         [content |-> ds[i].content, role |-> ds[i].role, timestamp |-> now]
                  /\ new.meta.loading = old.meta.loading
                  /\ new.meta.responseTime = old.meta.responseTime]_vars

\* The role delta and then the content delta have been applied, in two reads,
\* below a user message.
C8_Witness ==
  \E r \in 1..Len(reqs) :
    /\ reqs[r].pc = "streaming"
    /\ Len(reqs[r].delivered) = 2
    /\ Len(messages) = 2
    /\ LastOf(messages).content = The
    /\ LastOf(messages).meta.chunks[1].timestamp < LastOf(messages).meta.chunks[2].timestamp

\* C9: the step that ends the stream finalizes the tail message: loading
\* becomes false, timestamp the (positive) time of the step, responseTime a
\* non-empty text, and content, role, chunks and every other message stay as
\* they are.
C9_StreamEndFinalizes ==
  [][\A r \in 1..Len(reqs) :
       StreamEnd(r)
         => LET old == LastOf(messages)
                new == LastOf(messages')
            IN /\ Len(messages') = Len(messages)
               /\ SamePrefix(messages, messages')
               /\ old.meta.loading
               /\ ~new.meta.loading
               /\ new.timestamp = now
               /\ new.timestamp > 0
               /\ new.meta.responseTime # <<>>
               /\ new.content = old.content
               /\ new.role = old.role
               /\ new.meta.chunks = old.meta.chunks]_vars

\* A stream with a [DONE] frame has ended and its message is finalized.
C9_Witness ==
  \E r \in 1..Len(reqs) :
    /\ reqs[r].pc = "resolved"
    /\ reqs[r].body = ValidBody
    /\ reqs[r].closed = 1
    /\ Len(messages) = 2
    /\ ~LastOf(messages).meta.loading
    /\ LastOf(messages).timestamp = 2
    /\ LastOf(messages).content = The
    /\ LastOf(messages).meta.responseTime = <<"0", ".", "0", "0", " sec.">>

\* C10 (as claimed): whenever the tail message is not loading, submitPrompt
\* called without argument, or with an empty list, leaves the list empty.
C10_EmptySubmitResets ==
  ~TailLoading(messages)
    => /\ ENABLED (SubmitPrompt(NoArg) /\ messages' = <<>>)
       /\ ENABLED (SubmitPrompt(Arg(<<>>)) /\ messages' = <<>>)

C12_SetMessagesReplacesNormalized ==
  [][\A arg \in SetArgs :
       (SetMessages(arg) /\ ~loading)
         => /\ Len(messages') = Len(arg.list)
            /\ \A i \in 1..Len(arg.list) :
                 /\ messages'[i].content = arg.list[i].content
                 /\ messages'[i].role = arg.list[i].role
                 /\ messages'[i].timestamp = now
                 /\ messages'[i].timestamp \in Nat
                 /\ DOMAIN messages'[i].meta = {"loading", "responseTime", "chunks"}
                 /\ messages'[i].meta.loading =
                      IF "meta" \in DOMAIN arg.list[i] THEN arg.list[i].meta.loading ELSE FALSE
                 /\ messages'[i].meta.responseTime = <<>>
                 /\ messages'[i].meta.chunks = <<>>]_vars

\* A completed exchange was overwritten by a list of two entries, the first
\* of which supplied meta.loading.
C12_Witness ==
  /\ reqs # <<>>
  /\ LastOf(reqs).pc = "resolved"
  /\ LastOf(reqs).delivered # <<>>
  /\ ~loading
  /\ Len(messages) = 2
  /\ messages[1].content = <<"wait">>
  /\ messages[1].meta.loading
  /\ messages[2].content = <<"hi">>
  /\ ~messages[2].meta.loading
  /\ messages[2].timestamp = 2

\* C13: resetMessages empties the message list when no request is in
\* progress and only then; called while a request is in progress it leaves
\* the list, loading placeholder included, as it is.
C13_ResetOnlyWhenIdle ==
  IF \E r \in 1..Len(reqs) : InFlight(r)
    THEN /\ TailLoading(messages)
         /\ ~ENABLED (ResetMessages /\ messages' # messages)
    ELSE /\ ENABLED (ResetMessages /\ messages' = <<>>)
         /\ ~ENABLED (ResetMessages /\ messages' # <<>>)

\* The list was emptied after a completed exchange.
C13_Witness ==
  /\ reqs # <<>>
  /\ LastOf(reqs).pc = "resolved"
  /\ LastOf(reqs).delivered # <<>>
  /\ messages = <<>>
  /\ ~loading

C15_NotOkRejects ==
  \A r \in 1..Len(reqs) :
    ~reqs[r].ok
      => /\ reqs[r].pc = "rejected"
         /\ reqs[r].error = "Network response was not ok"
         /\ reqs[r].delivered = <<>>

\* C16 (as claimed): the promise submitPrompt returned rejects when the
\* request ended in a transport error, and fulfils, with the abort reported
\* as such, when the request was aborted.
C16_TransportErrorPropagates ==
  \A r \in 1..Len(reqs) :
    /\ reqs[r].error \in {"network", "No body"} => reqs[r].promise = "rejected"
    /\ reqs[r].error = "AbortError"
         => /\ reqs[r].promise = "fulfilled"
            /\ reqs[r].logged = <<"Request aborted">>

\* The frames of s that have been read in full
FrameCount(s) == Cardinality({i \in 2..Len(s) : s[i - 1] = NL /\ s[i] = NL})

\* The part of the body of request r that has been read
Consumed(r) == SubSeq(reqs[r].body, 1, Len(reqs[r].body) - Len(reqs[r].rest))

\* The onIncomingChunk calls due after k frames of ValidBody
ValidCalls(k) ==
  SubSeq(<<[content |-> <<>>, role |-> Assistant], [content |-> The, role |-> <<>>]>>,
         1, IF k > 2 THEN 2 ELSE k)

\* C17: on the body [role frame, content frame, DONE], delivered in chunks of
\* whole frames, the onIncomingChunk calls made so far are, after every read,
\* one per data frame read, in frame order: ('', 'assistant') for the role
\* frame and ('The', '') for the content frame, none for [DONE]; a chunk of
\* several frames adds all their calls in that one read; and the handler
\* fails on no frame.
C17_OneCallPerFrameInOrder ==
  /\ [](\A r \in 1..Len(reqs) :
          (reqs[r].ok /\ reqs[r].body = ValidBody)
            => /\ reqs[r].error \notin {"SyntaxError", "TypeError"}
               /\ reqs[r].pc \in {"streaming", "resolved"}
                    => reqs[r].delivered = ValidCalls(FrameCount(Consumed(r)))
               /\ reqs[r].pc = "resolved" => reqs[r].delivered = ValidCalls(3)
               /\ \E k \in 0..2 : reqs[r].delivered = ValidCalls(k))
  /\ [][\A r \in 1..Len(reqs) : \A n \in WholeFrames(reqs[r].rest) :
          (ReadChunk(r, n) /\ reqs[r].ok /\ reqs[r].body = ValidBody)
            => /\ Len(reqs'[r].delivered) - Len(reqs[r].delivered) =
                    Len(ValidCalls(FrameCount(SubSeq(reqs[r].body, 1, Len(Consumed(r)) + n))))
                      - Len(ValidCalls(FrameCount(Consumed(r))))
               /\ SubSeq(reqs'[r].delivered, 1, Len(reqs[r].delivered)) = reqs[r].delivered]_vars

\* The role frame and the content frame arrived together, in the only chunk
\* read so far, and both calls have been made.
C17_Witness ==
  \E r \in 1..Len(reqs) :
    /\ reqs[r].pc = "streaming"
    /\ reqs[r].reads = 1
    /\ reqs[r].rest = DoneFrame
    /\ reqs[r].delivered = ValidCalls(2)
    /\ LastOf(messages).content = The
    /\ LastOf(messages).role = Assistant

\* C18: onCloseStream is called exactly when the stream ends without error:
\* once, in the step that resolves the request, after every delta (none is
\* delivered later), with the time recorded when the request was issued;
\* a request that is rejected never calls it, and one still in flight has
\* not called it.
C18_CloseOnceAfterLastChunk ==
  /\ [](\A r \in 1..Len(reqs) :
          /\ reqs[r].closed = Len(reqs[r].closedWith)
          /\ reqs[r].closed = IF reqs[r].pc = "resolved" THEN 1 ELSE 0
          /\ reqs[r].pc = "resolved" => reqs[r].closedWith = <<reqs[r].before>>
          /\ reqs[r].before <= now)
  /\ [][\A arg \in PromptArgs :
          (SubmitPrompt(arg) /\ reqs' # reqs) => LastOf(reqs').before = now]_vars
  /\ [][\A r \in 1..Len(reqs) :
          StreamEnd(r) => /\ reqs[r].rest = <<>>
                          /\ reqs'[r].delivered = reqs[r].delivered
                          /\ reqs'[r].closedWith = <<reqs[r].before>>]_vars
  /\ [][\A r \in 1..Len(reqs) :
          (reqs[r].closed = 1 /\ r <= Len(reqs') /\ reqs'[r].closed = 1)
            => reqs'[r].delivered = reqs[r].delivered]_vars

\* A stream of two deltas ended one millisecond after the request was issued.
C18_Witness ==
  \E r \in 1..Len(reqs) :
    /\ reqs[r].pc = "resolved"
    /\ Len(reqs[r].delivered) = 2
    /\ reqs[r].closedWith = <<1>>
    /\ LastOf(messages).timestamp = 2

\* C19 (as claimed): when the stream has finished, the handler's promise
\* resolves to the message whose content and role are the concatenations of
\* the content and role deltas delivered.
C19_ResolvesToFullCompletion ==
  \A r \in 1..Len(reqs) :
    reqs[r].pc = "resolved"
      => reqs[r].returned = <<[content |-> JoinContent(reqs[r].delivered),
                               role |-> JoinRole(reqs[r].delivered)]>>

\* C20: loading is false initially and true exactly while a request is in
\* flight: an accepted submitPrompt sets it together with a loading
\* placeholder, and the step that settles the request (success, error or
\* abort) clears it.
C20_LoadingWhileInProgress ==
  /\ ~loading
  /\ [](loading <=> \E r \in 1..Len(reqs) : InFlight(r))
  /\ [][\A arg \in PromptArgs :
          (SubmitPrompt(arg) /\ reqs' # reqs)
            => /\ ~loading
               /\ loading'
               /\ LastOf(messages').meta.loading]_vars
  /\ [][\A r \in 1..Len(reqs) :
          (InFlight(r) /\ r <= Len(reqs') /\ reqs'[r].pc \in {"resolved", "rejected"})
            => loading /\ ~loading']_vars

\* A request was aborted after its first delta: loading is false again while
\* the placeholder is left loading.
C20_Witness ==
  /\ ~loading
  /\ reqs # <<>>
  /\ LastOf(reqs).error = "AbortError"
  /\ Len(LastOf(reqs).delivered) = 1
  /\ TailLoading(messages)

\* C21: when no request is in flight (before any submit, after a request has
\* settled, after an abort that has taken effect) the controller is null and
\* abortResponse changes nothing: not the messages, the loading flag, the
\* controller or any request; right after abortResponse the controller is
\* null, so a second call changes nothing either; and a request accepted
\* later starts with a signal that is not aborted.
C21_AbortIdleIsNoOp ==
  /\ []((\A r \in 1..Len(reqs) : ~InFlight(r))
          => /\ controller = 0
             /\ ~ENABLED (AbortResponse /\ <<messages, loading, controller, reqs>>'
                                             # <<messages, loading, controller, reqs>>))
  /\ [](controller = 0
          => ~ENABLED (AbortResponse /\ <<messages, loading, controller, reqs>>'
                                          # <<messages, loading, controller, reqs>>))
  /\ [][AbortResponse => controller' = 0]_vars
  /\ [][\A arg \in PromptArgs :
          (SubmitPrompt(arg) /\ reqs' # reqs)
            => /\ ~LastOf(reqs').aborted
               /\ ~LastOf(reqs').abortCalled
               /\ controller' = Len(reqs')]_vars

\* A request has completed, nothing is in flight, and abortResponse can be
\* called there.
C21_Witness ==
  /\ reqs # <<>>
  /\ LastOf(reqs).pc = "resolved"
  /\ controller = 0
  /\ ~loading
  /\ ENABLED AbortResponse

\* C22 (as claimed): a message with meta.loading = true is the last of the
\* list, so there is at most one.
C22_OnlyTailLoading ==
  \A i \in 1..Len(messages) : messages[i].meta.loading => i = Len(messages)

\* C23 (as claimed): in every state, the tail message loading or not,
\* submitPrompt called without argument, or with an empty list, leaves the
\* message list empty.
C23_EmptySubmitResetsAnyTime ==
  /\ ENABLED (SubmitPrompt(NoArg) /\ Len(messages') = 0)
  /\ ENABLED (SubmitPrompt(Arg(<<>>)) /\ Len(messages') = 0)

\* C24: the options of every request are method POST, the headers
\* Content-Type: application/json and Authorization: Bearer <apiKey>, the
\* signal of the controller created for the request, and a body whose
\* members are model, every other parameter except apiKey, messages and
\* stream, each once: model and the extra parameters with the values given,
\* messages the list given and stream true, also when the parameters hold a
\* stream or messages member of their own.
C24_RequestOptions ==
  /\ [](\A r \in 1..Len(reqs) :
          LET o == reqs[r].opts
              extras == Keys(apiParams) \ {"apiKey", "model", "messages", "stream"}
          IN /\ o.method = "POST"
             /\ o.headers = <<<<"Content-Type", "application/json">>,
                              <<"Authorization", <<"Bearer ", Get(apiParams, "apiKey")>>>>>>
             /\ Keys(o.body) = extras \cup {"model", "messages", "stream"}
             /\ Len(o.body) = Cardinality(Keys(o.body))
             /\ "apiKey" \notin Keys(o.body)
             /\ Get(o.body, "model") = Get(apiParams, "model")
             /\ \A k \in extras : Get(o.body, k) = Get(apiParams, k)
             /\ Get(o.body, "messages") = reqs[r].sent
             /\ Get(o.body, "stream") = TRUE)
  /\ [][\A arg \in PromptArgs :
          (SubmitPrompt(arg) /\ reqs' # reqs)
            => /\ LastOf(reqs').opts.signal = controller'
               /\ controller' # 0
               /\ Get(LastOf(reqs').opts.body, "messages")
                    = [i \in 1..(Len(messages') - 1) |->
                         [content |-> messages'[i].content, role |-> messages'[i].role]]]_vars

\* A request of a hook whose parameters hold stream: false and messages: []
\* is in flight with the conversation of a second exchange.
C24_Witness ==
  /\ apiParams = ShadowParams
  /\ \E r \in 1..Len(reqs) :
       /\ reqs[r].pc = "fetching"
       /\ Len(Get(reqs[r].opts.body, "messages")) = 3
       /\ Get(reqs[r].opts.body, "max_tokens") = 300

\* C25 (as claimed): however submitPrompt is called, also twice before the
\* caller has taken the callbacks of the next render, at most one request is
\* in flight, the list ends in exactly one loading placeholder while one is,
\* and the entries of the request in flight are the list below the
\* placeholder.
C25_ConcurrentSubmitsAtomic ==
  /\ Cardinality({r \in 1..Len(reqs) : InFlight(r)}) <= 1
  /\ \A r \in 1..Len(reqs) :
       reqs[r].pc = "fetching"
         => /\ Cardinality({i \in 1..Len(messages) : messages[i].meta.loading}) = 1
            /\ reqs[r].sent = [i \in 1..(Len(messages) - 1) |->
                                 [content |-> messages[i].content, role |-> messages[i].role]]

\* C26 (as claimed): of the body [role frame, DONE, content frame] nothing
\* that follows the sentinel is delivered.
C26_NothingAfterDone ==
  \A r \in 1..Len(reqs) :
    reqs[r].body = AfterDoneBody
      => \A i \in 1..Len(reqs[r].delivered) : reqs[r].delivered[i].content = <<>>

\* C27 (as claimed): when the handler fails on the malformed frame of the
\* body [role frame, malformed frame, ...], the delta of the role frame has
\* been delivered and applied to the tail message, also when both frames
\* came in one chunk.
C27_FramesBeforeParseFailureKept ==
  \A r \in 1..Len(reqs) :
    (reqs[r].body = BadBody /\ reqs[r].error = "SyntaxError")
      => /\ reqs[r].delivered = <<[content |-> <<>>, role |-> Assistant]>>
         /\ LastOf(messages).role = Assistant

\* C28 (as claimed): a body with a frame without data, or with a payload
\* without choices[0].delta, between the role frame and the content frame
\* is read to its end without error, and the tail message then has the role
\* and the content of the two other frames.
C28_EmptyFrameSkipped ==
  \A r \in 1..Len(reqs) :
    reqs[r].body \in {NoDataBody, NoDeltaBody}
      => /\ reqs[r].error \notin {"SyntaxError", "TypeError"}
         /\ reqs[r].pc = "resolved"
              => /\ LastOf(messages).role = Assistant
                 /\ LastOf(messages).content = The

IsPrefix(a, b) == Len(a) <= Len(b) /\ SubSeq(b, 1, Len(a)) = a

\* C29: the chunks of the tail message are the log of the deltas of the
\* latest request: as many tokens as deltas delivered, token i with the
\* content and role of delta i, in non-decreasing time; no step changes or
\* removes a token of any message, a read appends one token per delta (the
\* same delta twice gives two tokens), and the end of the stream leaves the
\* chunks as they are.
C29_ChunksAppendOnly ==
  /\ [](reqs # <<>>
          => LET tokens == LastOf(messages).meta.chunks
                 deltas == LastOf(reqs).delivered
             IN /\ Len(tokens) = Len(deltas)
                /\ \A i \in 1..Len(tokens) :
                     /\ tokens[i].content = deltas[i].content
                     /\ tokens[i].role = deltas[i].role
                /\ \A i \in 1..(Len(tokens) - 1) : tokens[i].timestamp <= tokens[i + 1].timestamp)
  /\ [][/\ Len(messages') >= Len(messages)
         /\ \A i \in 1..Len(messages) :
              IsPrefix(messages[i].meta.chunks, messages'[i].meta.chunks)]_vars
  /\ [][\A r \in 1..Len(reqs) : \A n \in WholeFrames(reqs[r].rest) :
          ReadChunk(r, n)
            => Len(LastOf(messages').meta.chunks) - Len(LastOf(messages).meta.chunks)
                 = Len(reqs'[r].delivered) - Len(reqs[r].delivered)]_vars
  /\ [][\A r \in 1..Len(reqs) :
          StreamEnd(r) => LastOf(messages').meta.chunks = LastOf(messages).meta.chunks]_vars

\* The same content delta arrived twice and the stream has ended: two equal
\* tokens (but for the time) are in the log.
C29_Witness ==
  /\ reqs # <<>>
  /\ LastOf(reqs).pc = "resolved"
  /\ LastOf(reqs).body = TwiceBody
  /\ Len(LastOf(messages).meta.chunks) = 2
  /\ LastOf(messages).meta.chunks[1].content = The
  /\ LastOf(messages).meta.chunks[2].content = The
  /\ LastOf(messages).content = The \o The

\* C30: the messages of the request of an accepted submitPrompt are the
\* messages the list had, followed by the new entries, in order, each as
\* {content, role} and nothing more: no placeholder, no timestamp, no meta;
\* and they are the messages member of the request body.
C30_RequestCarriesConversation ==
  /\ [](\A r \in 1..Len(reqs) : \A i \in 1..Len(reqs[r].sent) :
          DOMAIN reqs[r].sent[i] = {"content", "role"})
  /\ [][\A arg \in PromptArgs :
          (SubmitPrompt(arg) /\ reqs' # reqs)
            => LET L == Len(messages)
                   N == Len(arg.list)
                   sent == LastOf(reqs').sent
               IN /\ Len(sent) = L + N
                  /\ \A i \in 1..L :
                       sent[i] = [content |-> messages[i].content, role |-> messages[i].role]
                  /\ \A i \in 1..N :
                       sent[L + i] = [content |-> arg.list[i].content, role |-> arg.list[i].role]
                  /\ Get(LastOf(reqs').opts.body, "messages") = sent]_vars

\* The request of a second exchange is in flight: it carries the user
\* message and the completed answer of the first and the two new entries.
C30_Witness ==
  \E r \in 1..Len(reqs) :
    /\ reqs[r].pc = "fetching"
    /\ Len(reqs[r].sent) = 4
    /\ reqs[r].sent[2] = [content |-> The, role |-> Assistant]
    /\ reqs[r].sent[3].role = <<"system">>
    /\ Len(messages) = 5

\* C31: a read of a chunk and the end of the stream leave the length of the
\* list and every message before the tail exactly as they were.
C31_OnlyTailChanges ==
  /\ [][\A r \in 1..Len(reqs) : \A n \in WholeFrames(reqs[r].rest) :
          ReadChunk(r, n)
            => /\ Len(messages') = Len(messages)
               /\ \A i \in 1..(Len(messages) - 1) : messages'[i] = messages[i]]_vars
  /\ [][\A r \in 1..Len(reqs) :
          StreamEnd(r)
            => /\ Len(messages') = Len(messages)
               /\ \A i \in 1..(Len(messages) - 1) : messages'[i] = messages[i]]_vars

\* The answer of a second exchange has been streamed and finalized below
\* the finalized answer of the first.
C31_Witness ==
  /\ Len(messages) = 4
  /\ reqs # <<>>
  /\ LastOf(reqs).pc = "resolved"
  /\ Len(LastOf(reqs).sent) = 3
  /\ messages[2].content = The
  /\ messages[2].timestamp = 1
  /\ messages[4].content = The
  /\ messages[4].timestamp = 2

\* A message as submitPrompt creates it and deltas leave it
IsStreaming(m) == m.meta.loading /\ m.timestamp = 0 /\ m.meta.responseTime = <<>>

\* C32: while a request is in flight the tail message is loading with
\* timestamp 0 and responseTime ''; and a step that is no replacement of
\* the list (setMessages, resetMessages) and changes such a message either
\* leaves it loading with timestamp 0 and responseTime '' or is the end of
\* the stream, which sets loading false and a timestamp other than 0.
C32_PlaceholderUntilFinalized ==
  /\ [](\A r \in 1..Len(reqs) :
          InFlight(r) => messages # <<>> /\ IsStreaming(LastOf(messages)))
  /\ [][\A i \in 1..Len(messages) :
          (/\ IsStreaming(messages[i])
           /\ ~ResetMessages
           /\ \A arg \in SetArgs : ~SetMessages(arg))
            => /\ i <= Len(messages')
               /\ \/ IsStreaming(messages'[i])
                  \/ /\ \E r \in 1..Len(reqs) : StreamEnd(r)
                     /\ ~messages'[i].meta.loading
                     /\ messages'[i].timestamp # 0]_vars

\* Two deltas have been applied to the placeholder, which is still loading
\* with timestamp 0.
C32_Witness ==
  /\ \E r \in 1..Len(reqs) : reqs[r].pc = "streaming" /\ Len(reqs[r].delivered) = 2
  /\ LastOf(messages).content = The
  /\ IsStreaming(LastOf(messages))
  /\ now = 2

\* C33 (as claimed): the timestamp of the finalized tail message is greater
\* than the time recorded before the request.
C33_FinalTimestampStrictlyLater ==
  (reqs # <<>> /\ LastOf(reqs).pc = "resolved")
    => LastOf(messages).timestamp > LastOf(reqs).before

\* C33 (amended): the timestamp of the finalized tail message is the time
\* of the end of the stream, which is not before the time recorded before
\* the request and is equal to it when the clock has not advanced; the
\* elapsed time is not negative.
C33_FinalTimestampNotEarlier ==
  /\ []((reqs # <<>> /\ LastOf(reqs).pc = "resolved")
          => /\ LastOf(messages).timestamp >= LastOf(reqs).before
             /\ LastOf(messages).timestamp > 0
             /\ LastOf(messages).meta.responseTime
                  = FormattedDiff(LastOf(messages).timestamp - LastOf(reqs).before))
  /\ [][\A r \in 1..Len(reqs) :
          StreamEnd(r)
            => /\ LastOf(messages').timestamp = now
               /\ now - reqs[r].before \in Nat]_vars

\* A stream ended in the clock reading in which its request started.
C33_Witness ==
  /\ reqs # <<>>
  /\ LastOf(reqs).pc = "resolved"
  /\ Len(LastOf(reqs).delivered) = 2
  /\ LastOf(messages).timestamp = LastOf(reqs).before

\* The onIncomingChunk calls due after k frames of TickBody
TickCalls(k) ==
  SubSeq(<<[content |-> <<BT, "x">>, role |-> <<>>],
           [content |-> Spaced, role |-> <<>>],
           [content |-> MidTick, role |-> <<>>]>>,
         1, IF k > 3 THEN 3 ELSE k)

\* C34: of the content deltas "backtick, space, newline, x", "space, a,
\* space" and "a, backtick, space", the first is delivered as "backtick, x"
\* and the other two character for character.
C34_OnlyLeadingBacktickNormalized ==
  \A r \in 1..Len(reqs) :
    (reqs[r].body = TickBody /\ reqs[r].pc \in {"streaming", "resolved"})
      => reqs[r].delivered = TickCalls(FrameCount(Consumed(r)))

\* The three deltas have been delivered and are the content of the message.
C34_Witness ==
  /\ reqs # <<>>
  /\ LastOf(reqs).body = TickBody
  /\ LastOf(reqs).pc = "resolved"
  /\ Len(LastOf(reqs).delivered) = 3
  /\ LastOf(messages).content = <<BT, "x">> \o Spaced \o MidTick

\* C35: a request in flight eventually settles, by the end of the stream, a
\* missing body, a failed fetch, a frame that does not parse or an abort;
\* the promise of a settled request is settled, and whenever no request is
\* in flight the loading flag is false and no controller is stored.
C35_EverySubmitSettles ==
  /\ [](\A r \in 1..Len(reqs) : Settled(r) <=> reqs[r].promise # "pending")
  /\ []((\A r \in 1..Len(reqs) : Settled(r)) => (~loading /\ controller = 0))
  /\ (\E r \in 1..Len(reqs) : InFlight(r))
       ~> (/\ reqs # <<>>
           /\ \A r \in 1..Len(reqs) : Settled(r)
           /\ ~loading
           /\ controller = 0)

\* A request has ended on a frame that does not parse, after one delta.
C35_Witness ==
  /\ reqs # <<>>
  /\ LastOf(reqs).error = "SyntaxError"
  /\ LastOf(reqs).promise = "fulfilled"
  /\ Len(LastOf(reqs).delivered) = 1
  /\ ~loading
  /\ controller = 0

\* A message that was not given by the caller: the placeholder of a request
\* and what deltas and the end of the stream made of it
MadeByRequest(m) == m.role \notin {<<"user">>, <<"system">>}

\* C36: the content of every message made by a request is the contents of
\* its chunks joined in order, and its role is their roles joined in order.
C36_ContentIsJoinedChunks ==
  \A i \in 1..Len(messages) :
    MadeByRequest(messages[i])
      => /\ messages[i].content = JoinContent(messages[i].meta.chunks)
         /\ messages[i].role = JoinRole(messages[i].meta.chunks)

\* Below a finalized answer with two chunks, the answer of a second request
\* was aborted after its first chunk.
C36_Witness ==
  /\ Len(messages) = 4
  /\ ~messages[2].meta.loading
  /\ messages[2].content = The
  /\ Len(messages[2].meta.chunks) = 2
  /\ reqs # <<>>
  /\ LastOf(reqs).error = "AbortError"
  /\ messages[4].role = Assistant
  /\ Len(messages[4].meta.chunks) = 1

\* C37 (as claimed): when the loading flag is false no message of the list
\* has meta.loading = true.
C37_FlagsAgree ==
  ~loading => \A i \in 1..Len(messages) : ~messages[i].meta.loading

\* The chunks of a message without their timestamps
Tokens(m) ==
  [i \in 1..Len(m.meta.chunks) |->
     [content |-> m.meta.chunks[i].content, role |-> m.meta.chunks[i].role]]

\* C38 (as claimed): a read or an end of stream of a request that changes
\* the list finds the tail message loading and made of exactly the deltas
\* this request has delivered, that is, the tail is the request's own
\* placeholder.
C38_OnlyOwnPlaceholder ==
  [][\A r \in 1..Len(reqs) :
       ((\/ \E n \in WholeFrames(reqs[r].rest) : ReadChunk(r, n)
         \/ StreamEnd(r))
        /\ messages' # messages)
         => /\ LastOf(messages).meta.loading
            /\ Tokens(LastOf(messages)) = reqs[r].delivered]_vars

\* C39 (as claimed): the list before an accepted submitPrompt, called
\* through the callback of any render, is a prefix of the list after it.
C39_SubmitKeepsPrefix ==
  [][\A arg \in PromptArgs :
       (SubmitPromptHeld(arg) /\ reqs' # reqs) => IsPrefix(messages, messages')]_vars

\* C40 (as claimed): while a request is in flight and has not been aborted,
\* the stored controller is the one whose signal the request was given.
C40_ControllerOfRequestInFlight ==
  \A r \in 1..Len(reqs) :
    (InFlight(r) /\ ~reqs[r].abortCalled) => controller = reqs[r].opts.signal

====
